---------------------------- MODULE Spec2Model ----------------------------
(***************************************************************************)
(* A model of the praxis router's proxy/endpoint subsystem                 *)
(* (package router of src/manifest/service.go).                            *)
(*                                                                         *)
(* Strings the code parses (URL hosts, target paths, header names) are     *)
(* sequences of one-character strings, so that strings.Split, strconv.Atoi *)
(* and header canonicalisation are computed rather than assumed.  Strings  *)
(* the code only compares or passes on (schemes, error texts, header       *)
(* values) are TLA+ strings.                                               *)
(*                                                                         *)
(* Specifications:                                                         *)
(*   Spec          one Proxy's Serve: listener lifecycle, HTTP handler     *)
(*                 construction, the TCP accept loop and its tasks         *)
(*   SpecEndpoint  the Endpoint's port map under NewProxy calls            *)
(*   SpecProxy     NewProxy calls followed by Serve on a registered Proxy  *)
(*   SpecRace      NewProxy called from several goroutines at once         *)
(*   SpecResolve   the dial functions of serviceTransport and of the       *)
(*                 WebSocket dialer, and the relay tasks they start        *)
(*   SpecRelay     the relay tasks followed to their end, with weak        *)
(*                 fairness of each relay's own steps                      *)
(*   SpecWs        the WebSocket handler's outbound handshake headers      *)
(*   SpecPump      the WebSocket handler's two copies and errc             *)
(*   SpecJSON      Proxy.MarshalJSON                                       *)
(***************************************************************************)
EXTENDS Integers, Sequences, FiniteSets, TLC

VARIABLES
    pListen,    \* Spec: p.Listen.Scheme of the Proxy being served
    pTarget,    \* Spec: p.Target, [Scheme, Host, Path]
    sPc,        \* Spec: where Serve is
    sErr,       \* Spec: the error Serve returned ("" for nil, or not returned)
    lnOpened,   \* Spec: net.Listen succeeded in this Serve
    lnOpen,     \* Spec: the network listener is open
    lnTLS,      \* Spec: ln was replaced by tls.NewListener(ln, cfg)
    certAsked,  \* Spec: generateCertificate was called
    served,     \* Spec: requests the HTTP server passed to the handler
    conns,      \* Spec: the accepted connections, one task each
    routed,     \* Spec: the latest request served and what answered it
    Proxies,    \* SpecEndpoint: e.Proxies, port -> [Listen, Target]
    last,       \* SpecEndpoint: the last NewProxy call and its result
    instances,  \* SpecResolve: the processes the rack lists for the service
    dials,      \* SpecResolve: the calls of the two dial functions, in order
    relays,     \* SpecResolve, SpecRelay: the serviceProxy tasks, in start order
    wsReq,      \* SpecWs: the header fields of the inbound request, as sent
    wsPc,       \* SpecWs: where the handler is
    wsOut,      \* SpecWs: the headers handed to dialer.Dial
    wsFrontend, \* SpecWs, SpecPump: the upgraded inbound connection
    wsBackend,  \* SpecWs, SpecPump: the dialed outbound connection
    wsDials,    \* SpecWs, SpecPump: calls of dialer.Dial the handler made
    wsLog,      \* SpecWs, SpecPump: the diagnostics the handler printed
    errc,       \* SpecPump: the channel the copies report to
    cps,        \* SpecPump: the copy tasks the handler started
    calls,      \* SpecRace: concurrent NewProxy calls, one record each
    jsonP,      \* SpecJSON: the Proxy marshaled
    jsonOut     \* SpecJSON: the bytes MarshalJSON returned

serveVars ==
    <<pListen, pTarget, sPc, sErr, lnOpened, lnOpen, lnTLS, certAsked, served, conns, routed>>
endpointVars == <<Proxies, last>>
resolveVars == <<instances, dials, relays>>
wsVars == <<wsReq, wsPc, wsOut, wsFrontend, wsBackend, wsDials, wsLog, errc, cps>>
raceVars == <<calls>>
jsonVars == <<jsonP, jsonOut>>
vars == <<serveVars, endpointVars, resolveVars, wsVars, raceVars, jsonVars>>
\* what each specification leaves alone
notServe == <<endpointVars, resolveVars, wsVars, raceVars, jsonVars>>
notEndpoint == <<serveVars, resolveVars, wsVars, raceVars, jsonVars>>
notResolve == <<serveVars, endpointVars, wsVars, raceVars, jsonVars>>
notWs == <<serveVars, endpointVars, resolveVars, raceVars, jsonVars>>
notRace == <<serveVars, last, resolveVars, wsVars, jsonVars>>
notJSON == <<serveVars, endpointVars, resolveVars, wsVars, raceVars>>

----------------------------------------------------------------------------
(* Bounds *)

\* connections one accept loop accepts
MaxConns == 2
\* requests one HTTP server serves
MaxRequests == 2
\* NewProxy calls on one Endpoint
MaxCalls == 3
\* calls of the dial functions
MaxDials == 2
\* header fields of one inbound request
MaxHeaders == 2
\* relays followed to their end
MaxRelays == 2
\* goroutines calling NewProxy at the same time
MaxRacers == 2

----------------------------------------------------------------------------
(* Strings as sequences of characters *)

Slash == <<"/">>
Colon == <<":">>
sRack == <<"r", "a", "c", "k">>
sService == <<"s", "e", "r", "v", "i", "c", "e">>
sResource == <<"r", "e", "s", "o", "u", "r", "c", "e">>
sBogus == <<"b", "o", "g", "u", "s">>
sApp == <<"a">>
sWeb == <<"w">>
sDb == <<"d">>
s80 == <<"8", "0">>
sLocal == <<"1", "2", "7", ".", "0", ".", "0", ".", "1">>
s9000 == <<"9", "0", "0", "0">>

\* index of the first occurrence of character c in s, 0 when there is none
\* (strings.IndexByte, shifted by one)
RECURSIVE IndexFrom(_, _, _)
IndexFrom(s, c, i) ==
    IF i > Len(s) THEN 0
    ELSE IF s[i] = c THEN i
    ELSE IndexFrom(s, c, i + 1)

IndexByte(s, c) == IndexFrom(s, c, 1)

\* strings.Split(s, sep) for a one-character separator: the Len+1 pieces
\* around every occurrence of sep; Split("", sep) is one empty piece
RECURSIVE Split(_, _)
Split(s, c) ==
    LET i == IndexByte(s, c)
    IN  IF i = 0 THEN <<s>>
        ELSE <<SubSeq(s, 1, i - 1)>> \o Split(SubSeq(s, i + 1, Len(s)), c)

Digits == {"0", "1", "2", "3", "4", "5", "6", "7", "8", "9"}

DigitVal(c) ==
    CASE c = "0" -> 0 [] c = "1" -> 1 [] c = "2" -> 2 [] c = "3" -> 3
      [] c = "4" -> 4 [] c = "5" -> 5 [] c = "6" -> 6 [] c = "7" -> 7
      [] c = "8" -> 8 [] c = "9" -> 9

RECURSIVE DecimalVal(_, _)
DecimalVal(s, acc) ==
    IF s = <<>> THEN acc ELSE DecimalVal(Tail(s), acc * 10 + DigitVal(Head(s)))

\* strconv.Atoi: an optional sign, then one or more decimal digits and
\* nothing else.  (Its range error needs more than 18 digits; the ports and
\* selectors of this model are far shorter.)
Atoi(s) ==
    LET signed == s # <<>> /\ Head(s) \in {"+", "-"}
        body == IF signed THEN Tail(s) ELSE s
        neg == signed /\ Head(s) = "-"
    IN  IF body = <<>> \/ \E i \in 1..Len(body) : body[i] \notin Digits
        THEN [ok |-> FALSE, val |-> 0]
        ELSE [ok |-> TRUE,
              val |-> IF neg THEN 0 - DecimalVal(body, 0) ELSE DecimalVal(body, 0)]

\* url.URL.Hostname: Host without a port, cut at the first colon
Hostname(u) ==
    LET i == IndexByte(u.Host, ":")
    IN  IF i = 0 THEN u.Host ELSE SubSeq(u.Host, 1, i - 1)

\* url.URL.Port: what follows the first colon of Host, "" when there is none
Port(u) ==
    LET i == IndexByte(u.Host, ":")
    IN  IF i = 0 THEN <<>> ELSE SubSeq(u.Host, i + 1, Len(u.Host))

----------------------------------------------------------------------------
(* Errors, named by the text the code formats them with *)

ErrInvalidRack == "invalid rack endpoint"
ErrInvalidSelector == "invalid endpoint"
ErrAtoi == "strconv.Atoi"
ErrUnknownType == "unknown proxy type"
ErrListenerScheme == "unknown listener scheme"
ErrPanic == "panic: index out of range"

----------------------------------------------------------------------------
(* Target paths: the two parses of /{app}/{kind}/{name}:{port} *)

Fail(e) == [err |-> e, transport |-> "", app |-> <<>>, name |-> <<>>, port |-> 0]

\* a seeded fault: the length check is off by one, so a three-segment path
\* gets past it and indexing parts[3] panics
proxyRackHTTPShortCheck(path) ==
    LET parts == Split(path, "/")
    IN  IF Len(parts) < 3 THEN Fail(ErrInvalidRack)
        ELSE IF Len(parts) < 4 THEN Fail(ErrPanic)
        ELSE LET sp == Split(parts[4], ":")
             IN  IF Len(sp) < 2 THEN Fail(ErrInvalidSelector)
                 ELSE IF ~Atoi(sp[2]).ok THEN Fail(ErrAtoi)
                 ELSE IF parts[3] = sService
                 THEN [err |-> "", transport |-> "serviceTransport",
                       app |-> parts[2], name |-> sp[1], port |-> Atoi(sp[2]).val]
                 ELSE Fail(ErrUnknownType)

\* a seeded fault: the kind is not looked at, every kind gets the service
\* transport
proxyRackHTTPAnyKind(path) ==
    LET parts == Split(path, "/")
    IN  IF Len(parts) < 4 THEN Fail(ErrInvalidRack)
        ELSE LET sp == Split(parts[4], ":")
             IN  IF Len(sp) < 2 THEN Fail(ErrInvalidSelector)
                 ELSE IF ~Atoi(sp[2]).ok THEN Fail(ErrAtoi)
                 ELSE [err |-> "", transport |-> "serviceTransport",
                       app |-> parts[2], name |-> sp[1], port |-> Atoi(sp[2]).val]

\* Proxy.proxyRackHTTP up to the handler it returns: err = "" is a handler
\* whose reverse proxy uses the named transport.  Go's parts[1..3] are
\* parts[2..4] here.
proxyRackHTTP(path) ==
    LET parts == Split(path, "/")
    IN  IF Len(parts) < 4 THEN Fail(ErrInvalidRack)
        ELSE LET app == parts[2]
                 kind == parts[3]
                 sp == Split(parts[4], ":")
             IN  IF Len(sp) < 2 THEN Fail(ErrInvalidSelector)
                 ELSE LET service == sp[1]
                          pi == Atoi(sp[2])
                      IN  IF ~pi.ok THEN Fail(ErrAtoi)
                          ELSE IF kind = sService
                          THEN [err |-> "", transport |-> "serviceTransport",
                                app |-> app, name |-> service, port |-> pi.val]
                          ELSE Fail(ErrUnknownType)

\* Proxy.proxyHTTP: the rack handler for the host "rack", a single-host
\* reverse proxy otherwise
proxyHTTP(target) ==
    IF Hostname(target) = sRack
    THEN proxyRackHTTP(target.Path)
    ELSE [err |-> "", transport |-> "defaultTransport",
          app |-> <<>>, name |-> <<>>, port |-> 0]

\* proxyRackTCP before it creates the rack client: the checks on the path
proxyRackTCPParse(path) ==
    LET parts == Split(path, "/")
    IN  IF Len(parts) < 4 THEN [err |-> ErrInvalidRack, app |-> <<>>, kind |-> <<>>, resource |-> <<>>]
        ELSE LET app == parts[2]
                 kind == parts[3]
                 rp == Split(parts[4], ":")
             IN  IF Len(rp) < 2
                 THEN [err |-> ErrInvalidSelector, app |-> <<>>, kind |-> <<>>, resource |-> <<>>]
                 ELSE [err |-> "", app |-> app, kind |-> kind, resource |-> rp[1]]

\* proxyRackTCP's switch on the kind: the tunnel it opens, "" for none
proxyRackTCPTunnel(kind) ==
    IF kind = sResource THEN "ResourceProxy" ELSE ""

----------------------------------------------------------------------------
(* The proxies served *)

ListenSchemes == {"http", "https", "tcp", "tls", "udp"}

RackTarget(path) == [Scheme |-> "tcp", Host |-> sRack, Path |-> path]

DirectTarget == [Scheme |-> "tcp", Host |-> sLocal \o Colon \o s9000, Path |-> <<>>]

WellFormedPaths ==
    { Slash \o sApp \o Slash \o sService \o Slash \o sWeb \o Colon \o s80,
      Slash \o sApp \o Slash \o sResource \o Slash \o sDb \o Colon \o s80,
      Slash \o sApp \o Slash \o sService \o Slash \o sWeb \o Colon \o s80 \o Slash \o sWeb }

RackPaths ==
    WellFormedPaths \cup
    { <<>>,
      Slash,
      Slash \o sApp \o Slash \o sService,
      Slash \o sApp \o Slash \o sBogus,
      Slash \o sApp \o Slash \o sService \o Slash \o sWeb,
      Slash \o sApp \o Slash \o sResource \o Slash \o sDb,
      Slash \o sApp \o Slash \o sService \o Slash \o sWeb \o Colon \o sWeb,
      Slash \o sApp \o Slash \o sBogus \o Slash \o sWeb \o Colon \o s80,
      Slash \o sApp \o Slash \o sBogus \o Slash \o sWeb,
      Slash \o sApp \o Slash \o sBogus \o Slash \o sWeb \o Colon \o sWeb,
      Slash \o sApp \o Slash \o <<>> \o Slash \o sWeb \o Colon \o s80 }

Targets == {DirectTarget} \cup {RackTarget(p) : p \in RackPaths}

----------------------------------------------------------------------------
(* The router proxyRackHTTP returns *)

\* path.Clean on the segments of a rooted path: empty and "." segments are
\* dropped, ".." drops the segment before it
RECURSIVE CleanSegments(_, _)
CleanSegments(segs, out) ==
    IF segs = <<>> THEN out
    ELSE LET h == Head(segs)
         IN  IF h = <<>> \/ h = <<".">> THEN CleanSegments(Tail(segs), out)
             ELSE IF h = <<".", ".">>
             THEN CleanSegments(Tail(segs),
                                IF out = <<>> THEN out ELSE SubSeq(out, 1, Len(out) - 1))
             ELSE CleanSegments(Tail(segs), Append(out, h))

RECURSIVE JoinRooted(_)
JoinRooted(segs) ==
    IF segs = <<>> THEN <<>>
    ELSE Slash \o Head(segs) \o JoinRooted(Tail(segs))

\* the canonical form the router of mux.NewRouter() compares a request path
\* with: rooted, cleaned, a trailing slash kept
cleanPath(path) ==
    IF path = <<>> THEN Slash
    ELSE LET q == IF path[1] # "/" THEN Slash \o path ELSE path
             j == JoinRooted(CleanSegments(Split(q, "/"), <<>>))
             np == IF j = <<>> THEN Slash ELSE j
         IN  IF q[Len(q)] = "/" /\ np # Slash THEN np \o Slash ELSE np

\* a seeded fault: the two routes are registered in the other order
RoutesReversed ==
    << [handler |-> "rp", methods |-> {}, header |-> ""],
       [handler |-> "ws", methods |-> {"GET"}, header |-> "websocket"] >>

\* the routes in the order proxyRackHTTP registers them, both on the
\* template "/{path:.*}": the ws handler for GET with Upgrade: websocket,
\* then the reverse proxy without further matchers
Routes ==
    << [handler |-> "ws", methods |-> {"GET"}, header |-> "websocket"],
       [handler |-> "rp", methods |-> {}, header |-> ""] >>

\* the template "/{path:.*}": any path that begins with a slash
TemplateMatches(path) == path # <<>> /\ path[1] = "/"

\* Methods(...) and Headers("Upgrade", v): the method is one of those named,
\* and one of the request's Upgrade values is exactly v
RouteMatches(route, req) ==
    /\ TemplateMatches(req.Path)
    /\ route.methods # {} => req.Method \in route.methods
    /\ route.header # "" => \E i \in 1..Len(req.Upgrade) : req.Upgrade[i] = route.header

\* the router serving a request: a path that is not in canonical form is
\* answered with a redirect, otherwise the first matching route's handler
\* gets the request
Router(req) ==
    IF cleanPath(req.Path) # req.Path THEN "redirect"
    ELSE LET hits == {i \in 1..Len(Routes) : RouteMatches(Routes[i], req)}
         IN  IF hits = {} THEN "notfound"
             ELSE Routes[CHOOSE i \in hits : \A j \in hits : i <= j].handler

\* the handler http.Serve is given by proxyHTTP: the router for a rack
\* target, a single-host reverse proxy for any other
ServeHandler(target, req) ==
    IF Hostname(target) = sRack THEN Router(req) ELSE "rp"

RequestPaths ==
    {Slash, Slash \o sWeb, Slash \o sWeb \o Slash, Slash \o Slash \o sWeb}

UpgradeValues == {<<>>, <<"websocket">>, <<"WebSocket">>, <<"h2c", "websocket">>}

Requests == [Method : {"GET", "POST"}, Path : RequestPaths, Upgrade : UpgradeValues]

NoRequest == [req |-> [Method |-> "", Path |-> <<>>, Upgrade |-> <<>>], handler |-> ""]

----------------------------------------------------------------------------
(* Proxy.Serve *)

\* one accepted connection and the task proxyTCP started for it
NewTask ==
    [pc |-> "start", cnOpen |-> TRUE, err |-> "", client |-> FALSE,
     tunnel |-> "", prOpen |-> FALSE, dialed |-> <<>>]

InitServe ==
    /\ pListen \in ListenSchemes
    /\ pTarget \in Targets
    /\ sPc = "start"
    /\ sErr = ""
    /\ lnOpened = FALSE
    /\ lnOpen = FALSE
    /\ lnTLS = FALSE
    /\ certAsked = FALSE
    /\ served = 0
    /\ conns = <<>>
    /\ routed = NoRequest

\* a seeded fault: a return that does not run the deferred ln.Close()
ServeReturnNoClose(e) ==
    /\ sPc' = "returned"
    /\ sErr' = e
    /\ UNCHANGED lnOpen

\* a return of Serve after `defer ln.Close()`: the listener is closed
ServeReturn(e) ==
    /\ sPc' = "returned"
    /\ sErr' = e
    /\ lnOpen' = FALSE

\* net.Listen: on failure Serve returns before the defer is registered
ServeListen ==
    /\ sPc = "start"
    /\ \/ /\ sPc' = "tls"
          /\ lnOpened' = TRUE
          /\ lnOpen' = TRUE
          /\ UNCHANGED sErr
       \/ /\ sPc' = "returned"
          /\ sErr' = "net.Listen"
          /\ UNCHANGED <<lnOpened, lnOpen>>
    /\ UNCHANGED <<pListen, pTarget, lnTLS, certAsked, served, conns, routed, notServe>>

\* the first switch: https and tls get a certificate and a TLS listener
ServeTLS ==
    /\ sPc = "tls"
    /\ IF pListen \in {"https", "tls"}
       THEN /\ certAsked' = TRUE
            /\ \/ /\ ServeReturn("generateCertificate")
                  /\ UNCHANGED lnTLS
               \/ /\ lnTLS' = TRUE
                  /\ sPc' = "dispatch"
                  /\ UNCHANGED <<sErr, lnOpen>>
       ELSE /\ sPc' = "dispatch"
            /\ UNCHANGED <<sErr, lnOpen, lnTLS, certAsked>>
    /\ UNCHANGED <<pListen, pTarget, lnOpened, served, conns, routed, notServe>>

\* the second switch: http and https build the handler and serve it, tcp
\* runs the accept loop, anything else is an unknown listener scheme
ServeDispatch ==
    /\ sPc = "dispatch"
    /\ IF pListen \in {"http", "https"}
       THEN LET h == proxyHTTP(pTarget)
            IN  IF h.err # ""
                THEN ServeReturn(h.err)
                ELSE /\ sPc' = "http.Serve"
                     /\ UNCHANGED <<sErr, lnOpen>>
       ELSE IF pListen = "tcp"
       THEN /\ sPc' = "proxyTCP"
            /\ UNCHANGED <<sErr, lnOpen>>
       ELSE ServeReturn(ErrListenerScheme)
    /\ UNCHANGED <<pListen, pTarget, lnOpened, lnTLS, certAsked, served, conns, routed, notServe>>

\* http.Serve hands an accepted request to the handler; routed keeps the
\* latest request and what answered it
HTTPRequest ==
    /\ sPc = "http.Serve"
    /\ lnOpen
    /\ served < MaxRequests
    /\ served' = served + 1
    /\ \E req \in Requests :
          routed' = [req |-> req, handler |-> ServeHandler(pTarget, req)]
    /\ UNCHANGED <<pListen, pTarget, sPc, sErr, lnOpened, lnOpen, lnTLS, certAsked, conns, notServe>>

\* http.Serve returns: always with an error, which Serve returns
HTTPServeError ==
    /\ sPc = "http.Serve"
    /\ ServeReturn("http.Serve")
    /\ UNCHANGED <<pListen, pTarget, lnOpened, lnTLS, certAsked, served, conns, routed, notServe>>

\* something outside Serve closes the listener while it is serving
ExternalClose ==
    /\ sPc \in {"http.Serve", "proxyTCP"}
    /\ lnOpen
    /\ lnOpen' = FALSE
    /\ UNCHANGED <<pListen, pTarget, sPc, sErr, lnOpened, lnTLS, certAsked, served, conns, routed, notServe>>

----------------------------------------------------------------------------
(* proxyTCP and the tasks it starts *)

\* proxyTCP: Accept returns a connection, `go proxyRackTCP(cn, target)`
proxyTCPAccept ==
    /\ sPc = "proxyTCP"
    /\ lnOpen
    /\ Len(conns) < MaxConns
    /\ conns' = Append(conns, NewTask)
    /\ UNCHANGED <<pListen, pTarget, sPc, sErr, lnOpened, lnOpen, lnTLS, certAsked, served, routed, notServe>>

\* proxyTCP: Accept returns an error, which ends the loop and Serve
proxyTCPAcceptError ==
    /\ sPc = "proxyTCP"
    /\ ServeReturn("Accept")
    /\ UNCHANGED <<pListen, pTarget, lnOpened, lnTLS, certAsked, served, conns, routed, notServe>>

\* a seeded fault: proxyTCP calls proxyRackTCP itself and returns its error
TaskReturnToLoop(i, c, e) ==
    /\ conns' = [conns EXCEPT ![i] =
                    [c EXCEPT !.pc = "done", !.cnOpen = FALSE, !.prOpen = FALSE, !.err = e]]
    /\ IF e # "" /\ sPc = "proxyTCP"
       THEN ServeReturn(e)
       ELSE UNCHANGED <<sPc, sErr, lnOpen>>

\* task i returns e from state c: the deferred pr.Close() and cn.Close() run,
\* and the value goes nowhere, the task being a goroutine of its own
TaskReturn(i, c, e) ==
    /\ conns' = [conns EXCEPT ![i] =
                    [c EXCEPT !.pc = "done", !.cnOpen = FALSE, !.prOpen = FALSE, !.err = e]]
    /\ UNCHANGED <<sPc, sErr, lnOpen>>

\* proxyRackTCP up to the tunnel call: the path checks, rack.NewFromEnv
\* (which may fail), the switch on the kind
TaskStart(i) ==
    /\ conns[i].pc = "start"
    /\ LET c == conns[i]
           d == proxyRackTCPParse(pTarget.Path)
       IN  IF d.err # ""
           THEN TaskReturn(i, c, d.err)
           ELSE \/ TaskReturn(i, c, "rack.NewFromEnv")
                \/ IF proxyRackTCPTunnel(d.kind) = ""
                   THEN TaskReturn(i, [c EXCEPT !.client = TRUE], ErrUnknownType)
                   ELSE /\ conns' = [conns EXCEPT ![i] =
                                        [c EXCEPT !.pc = "ResourceProxy", !.client = TRUE]]
                        /\ UNCHANGED <<sPc, sErr, lnOpen>>
    /\ UNCHANGED <<pListen, pTarget, lnOpened, lnTLS, certAsked, served, routed, notServe>>

\* r.ResourceProxy returns: the tunnel, or an error
TaskResourceProxy(i) ==
    /\ conns[i].pc = "ResourceProxy"
    /\ \/ TaskReturn(i, conns[i], "ResourceProxy")
       \/ /\ conns' = [conns EXCEPT ![i] =
                          [@ EXCEPT !.pc = "Stream", !.tunnel = "ResourceProxy", !.prOpen = TRUE]]
          /\ UNCHANGED <<sPc, sErr, lnOpen>>
    /\ UNCHANGED <<pListen, pTarget, lnOpened, lnTLS, certAsked, served, routed, notServe>>

\* helpers.Stream returns, with an error or without
TaskStream(i) ==
    /\ conns[i].pc = "Stream"
    /\ \E e \in {"", "Stream"} : TaskReturn(i, conns[i], e)
    /\ UNCHANGED <<pListen, pTarget, lnOpened, lnTLS, certAsked, served, routed, notServe>>

NextServe ==
    \/ ServeListen
    \/ ServeTLS
    \/ ServeDispatch
    \/ HTTPRequest
    \/ HTTPServeError
    \/ ExternalClose
    \/ proxyTCPAccept
    \/ proxyTCPAcceptError
    \/ \E i \in 1..Len(conns) : TaskStart(i)
    \/ \E i \in 1..Len(conns) : TaskResourceProxy(i)
    \/ \E i \in 1..Len(conns) : TaskStream(i)

----------------------------------------------------------------------------
(* Endpoint.NewProxy *)

NoCall == [n |-> 0, listen |-> [Scheme |-> "", Host |-> <<>>], target |-> DirectTarget,
           ok |-> FALSE, err |-> ""]

\* the Endpoint as constructed: no proxies
InitEndpoint ==
    /\ Proxies = <<>>
    /\ last = NoCall

IdleEndpoint == InitEndpoint

IdleServe ==
    /\ pListen = "tcp"
    /\ pTarget = DirectTarget
    /\ sPc = "idle"
    /\ sErr = ""
    /\ lnOpened = FALSE
    /\ lnOpen = FALSE
    /\ lnTLS = FALSE
    /\ certAsked = FALSE
    /\ served = 0
    /\ conns = <<>>
    /\ routed = NoRequest

----------------------------------------------------------------------------
(* Properties of Serve, the accept loop and the target parses (Spec) *)

RackBacked == Hostname(pTarget) = sRack
TargetParts == Split(pTarget.Path, "/")
\* Serve got as far as the second switch and returned from there
ReturnedFromDispatch ==
    sPc = "returned" /\ sErr \notin {"net.Listen", "generateCertificate"}
Tasks == 1..Len(conns)

\* C2: with listen scheme tcp and a direct (non-rack) target, the task of
\* every accepted connection dials the literal target host (and then relays
\* until either side closes): no task ends without having dialed it.
C2_DirectTargetDialed ==
    (pListen = "tcp" /\ ~RackBacked) =>
        \A i \in Tasks : conns[i].pc = "done" => conns[i].dialed = pTarget.Host

\* C3: Serve on a Proxy whose listen scheme is http, https, tcp or tls never
\* returns the unknown-listener-scheme error.
C3_TLSIsServed ==
    pListen \in {"http", "https", "tcp", "tls"} =>
        ~(sPc = "returned" /\ sErr = ErrListenerScheme)

\* C4: once Serve has returned from an execution in which net.Listen
\* succeeded, the listener is closed, whatever the reason for returning.
C4_ListenerClosedOnReturn ==
    (sPc = "returned" /\ lnOpened) => ~lnOpen

C4_Witness ==
    /\ sPc = "returned"
    /\ lnOpened
    /\ lnTLS
    /\ sErr = "http.Serve"

\* C7: a rack-backed target whose path has fewer than 4 segments fails with
\* the invalid-rack-endpoint error: Serve returns it from handler construction
\* and never serves a request; a TCP task ends with it, having created no rack
\* client and opened no tunnel.
C7_MalformedPathFailsEarly ==
    (RackBacked /\ Len(TargetParts) < 4) =>
        /\ pListen \in {"http", "https"} =>
              /\ sPc # "http.Serve"
              /\ served = 0
              /\ ReturnedFromDispatch => sErr = ErrInvalidRack
        /\ \A i \in Tasks :
              conns[i].pc # "start" =>
                  /\ conns[i].pc = "done"
                  /\ conns[i].err = ErrInvalidRack
                  /\ ~conns[i].client
                  /\ conns[i].tunnel = ""
                  /\ ~conns[i].cnOpen

C7_Witness ==
    /\ RackBacked
    /\ Len(TargetParts) = 3
    /\ pListen = "tcp"
    /\ \E i \in Tasks : conns[i].pc = "done" /\ conns[i].err = ErrInvalidRack

UnknownKind ==
    /\ RackBacked
    /\ Len(TargetParts) >= 4
    /\ TargetParts[3] \notin {sService, sResource}

\* C8 as claimed: a target path whose kind is not service or resource fails
\* with the unknown-kind error in both forwarders, whatever the selector.
C8_UnknownKindWhateverSelector ==
    UnknownKind =>
        /\ (pListen \in {"http", "https"} /\ ReturnedFromDispatch) =>
              sErr = ErrUnknownType
        /\ \A i \in Tasks :
              (conns[i].pc = "done" /\ conns[i].err # "rack.NewFromEnv") =>
                  conns[i].err = ErrUnknownType

\* C8 as amended: such a path always fails and no backend is resolved for it;
\* the error is the unknown-kind error when the selector has at least two
\* colon-delimited tokens (and, in the HTTP forwarder, a numeric second
\* token), and the selector's or the port's error otherwise.
C8_UnknownKindAfterSelector ==
    UnknownKind =>
        LET sp == Split(TargetParts[4], ":")
        IN  /\ pListen \in {"http", "https"} =>
                  /\ sPc # "http.Serve"
                  /\ served = 0
                  /\ ReturnedFromDispatch =>
                        sErr = IF Len(sp) < 2 THEN ErrInvalidSelector
                               ELSE IF ~Atoi(sp[2]).ok THEN ErrAtoi
                               ELSE ErrUnknownType
            /\ \A i \in Tasks :
                  /\ conns[i].pc \in {"start", "done"}
                  /\ conns[i].tunnel = ""
                  /\ conns[i].pc = "done" =>
                        IF Len(sp) < 2 THEN conns[i].err = ErrInvalidSelector
                        ELSE conns[i].err \in {ErrUnknownType, "rack.NewFromEnv"}

C8_Witness ==
    /\ UnknownKind
    /\ pListen = "http"
    /\ sPc = "returned"
    /\ sErr = ErrUnknownType

WellFormedTarget ==
    /\ RackBacked
    /\ Len(TargetParts) >= 4
    /\ TargetParts[3] \in {sService, sResource}
    /\ Len(Split(TargetParts[4], ":")) >= 2
    /\ Atoi(Split(TargetParts[4], ":")[2]).ok

\* C9: for a well-formed rack-backed target of kind service or resource,
\* neither forwarder fails with the unknown-kind error.
C9_BothKindsResolved ==
    WellFormedTarget =>
        /\ ~(sPc = "returned" /\ sErr = ErrUnknownType)
        /\ \A i \in Tasks : conns[i].err # ErrUnknownType

\* what C16 says of a request: GET with an Upgrade: websocket header is for
\* the WebSocket forwarder, any other request for the reverse proxy
WebSocketUpgrade(req) ==
    /\ req.Method = "GET"
    /\ \E i \in 1..Len(req.Upgrade) : req.Upgrade[i] = "websocket"

Dispatched(req) == IF WebSocketUpgrade(req) THEN "ws" ELSE "rp"

C10_TaskErrorsConfined ==
    /\ [][ /\ (sPc = "proxyTCP" /\ sPc' # "proxyTCP") =>
                 (sPc' = "returned" /\ sErr' = "Accept" /\ conns' = conns)
           /\ \A i \in Tasks :
                 conns'[i] # conns[i] =>
                     /\ UNCHANGED <<sPc, sErr, lnOpen>>
                     /\ Len(conns') = Len(conns)
                     /\ \A j \in Tasks \ {i} : conns'[j] = conns[j] ]_vars
    /\ [](sPc = "proxyTCP" /\ lnOpen /\ Len(conns) < MaxConns => ENABLED proxyTCPAccept)

C10_Witness ==
    /\ sPc = "proxyTCP"
    /\ lnOpen
    /\ \E i, j \in Tasks :
          /\ conns[i].pc = "done"
          /\ conns[i].err = "ResourceProxy"
          /\ conns[j].pc = "Stream"
          /\ conns[j].cnOpen

----------------------------------------------------------------------------
(* Endpoint.NewProxy (SpecEndpoint) *)

ErrPortConflict == "proxy already exists for port"

sHost == <<"h">>
sPlus80 == <<"+", "8", "0">>
s080 == <<"0", "8", "0">>
s81 == <<"8", "1">>
s8x == <<"8", "x">>

\* the port texts that are integers, and the rest
NumericPorts == {s80, s080, sPlus80, s81}
OtherPorts == {s8x, <<>>}

ListenHosts == {sHost} \cup {sHost \o Colon \o p : p \in NumericPorts \cup OtherPorts}

Listens == [Scheme : {"http", "tcp"}, Host : ListenHosts]

CallTargets ==
    {DirectTarget, RackTarget(Slash \o sApp \o Slash \o sService \o Slash \o sWeb \o Colon \o s80)}

Registered(listen, target) == [Listen |-> listen, Target |-> target]

Called(listen, target, ok, err) ==
    [n |-> last.n + 1, listen |-> listen, target |-> target, ok |-> ok, err |-> err]

\* a seeded fault: no look-up before the insert, a second proxy for a port
\* replaces the first
NewProxyOverwrite(listen, target) ==
    LET pi == Atoi(Port(listen))
    IN  /\ last.n < MaxCalls
        /\ IF ~pi.ok
           THEN /\ last' = Called(listen, target, FALSE, ErrAtoi)
                /\ UNCHANGED Proxies
           ELSE /\ Proxies' = [k \in DOMAIN Proxies \cup {pi.val} |->
                                  IF k = pi.val THEN Registered(listen, target) ELSE Proxies[k]]
                /\ last' = Called(listen, target, TRUE, "")
        /\ UNCHANGED notEndpoint

\* Endpoint.NewProxy(host, listen, target)
NewProxy(listen, target) ==
    LET pi == Atoi(Port(listen))
    IN  /\ last.n < MaxCalls
        /\ IF ~pi.ok
           THEN /\ last' = Called(listen, target, FALSE, ErrAtoi)
                /\ UNCHANGED Proxies
           ELSE IF pi.val \in DOMAIN Proxies
           THEN /\ last' = Called(listen, target, FALSE, ErrPortConflict)
                /\ UNCHANGED Proxies
           ELSE /\ Proxies' = [k \in DOMAIN Proxies \cup {pi.val} |->
                                  IF k = pi.val THEN Registered(listen, target) ELSE Proxies[k]]
                /\ last' = Called(listen, target, TRUE, "")
        /\ UNCHANGED notEndpoint

NextEndpoint == \E listen \in Listens, target \in CallTargets : NewProxy(listen, target)

\* the schemes listed as supported
SupportedSchemes == {"http", "https", "tcp", "tls"}

\* listen URLs of every scheme, on two ports
SchemeListens == [Scheme : ListenSchemes, Host : {sHost \o Colon \o s80, sHost \o Colon \o s81}]

\* Serve is called on the proxy registered for port k
ServeStart(k) ==
    /\ sPc = "idle"
    /\ pListen' = Proxies[k].Listen.Scheme
    /\ pTarget' = Proxies[k].Target
    /\ sPc' = "start"
    /\ UNCHANGED <<sErr, lnOpened, lnOpen, lnTLS, certAsked, served, conns, routed, notServe>>

\* SpecProxy: proxies are constructed, then one of them is served up to the
\* point where it serves or returns
NextProxy ==
    \/ \E listen \in SchemeListens : NewProxy(listen, DirectTarget)
    \/ \E k \in DOMAIN Proxies : ServeStart(k)
    \/ ServeListen
    \/ ServeTLS
    \/ ServeDispatch

----------------------------------------------------------------------------
(* Endpoint.NewProxy called from several goroutines (SpecRace) *)

\* the runtime's report when it catches unsynchronised access to a map
ErrConcurrentMap == "fatal error: concurrent map writes"

\* a call that has built p and not yet converted the port
NewCall(listen) == [listen |-> listen, pc |-> "Atoi", ok |-> FALSE, err |-> ""]

RaceListens == [Scheme : {"tcp"}, Host : ListenHosts]

\* MaxRacers goroutines have each entered NewProxy on the same Endpoint,
\* which has no proxies yet
InitRace ==
    /\ calls \in [1..MaxRacers -> {NewCall(l) : l \in RaceListens}]
    /\ Proxies = <<>>

Racers == 1..Len(calls)

\* call i returns
RaceReturn(i, ok, err) ==
    calls' = [calls EXCEPT ![i] = [@ EXCEPT !.pc = "done", !.ok = ok, !.err = err]]

\* strconv.Atoi(listen.Port()) and the look-up `_, ok := e.Proxies[pi]`
RaceCheck(i) ==
    LET pi == Atoi(Port(calls[i].listen))
    IN  /\ calls[i].pc = "Atoi"
        /\ IF ~pi.ok THEN RaceReturn(i, FALSE, ErrAtoi)
           ELSE IF pi.val \in DOMAIN Proxies THEN RaceReturn(i, FALSE, ErrPortConflict)
           ELSE calls' = [calls EXCEPT ![i] = [@ EXCEPT !.pc = "insert"]]
        /\ UNCHANGED <<Proxies, notRace>>

\* `e.Proxies[pi] = *p` and the return: the write is made whatever the map
\* holds by now
RaceInsert(i) ==
    LET pi == Atoi(Port(calls[i].listen))
    IN  /\ calls[i].pc = "insert"
        /\ Proxies' = [k \in DOMAIN Proxies \cup {pi.val} |->
                          IF k = pi.val THEN Registered(calls[i].listen, DirectTarget)
                          ELSE Proxies[k]]
        /\ RaceReturn(i, TRUE, "")
        /\ UNCHANGED notRace

\* call i writes the map while call j is also about to write it: nothing
\* orders the two accesses, and the runtime may catch them and end the
\* process
RaceFatal(i, j) ==
    /\ i # j
    /\ calls[i].pc = "insert"
    /\ calls[j].pc = "insert"
    /\ calls' = [k \in Racers |->
                    IF calls[k].pc = "done" THEN calls[k]
                    ELSE [calls[k] EXCEPT !.pc = "fatal", !.err = ErrConcurrentMap]]
    /\ UNCHANGED <<Proxies, notRace>>

NextRace ==
    \/ \E i \in Racers : RaceCheck(i)
    \/ \E i \in Racers : RaceInsert(i)
    \/ \E i, j \in Racers : RaceFatal(i, j)

RacePort(i) == Atoi(Port(calls[i].listen))

\* C19 as stated: of two calls for the same port that have both ended,
\* however their steps were interleaved, exactly one succeeded, the other
\* failed with the port-conflict error, and the port map holds the proxy of
\* the one that succeeded.
C19_OneWinnerPerPort ==
    \A i, j \in Racers :
        (/\ i # j
         /\ calls[i].pc \in {"done", "fatal"} /\ calls[j].pc \in {"done", "fatal"}
         /\ RacePort(i).ok /\ RacePort(j).ok
         /\ RacePort(i).val = RacePort(j).val) =>
            \/ /\ calls[i].ok /\ ~calls[j].ok /\ calls[j].err = ErrPortConflict
               /\ Proxies[RacePort(i).val].Listen = calls[i].listen
            \/ /\ calls[j].ok /\ ~calls[i].ok /\ calls[i].err = ErrPortConflict
               /\ Proxies[RacePort(i).val].Listen = calls[j].listen
            \/ \E k \in Racers \ {i, j} :
                  /\ calls[k].ok
                  /\ RacePort(k).val = RacePort(i).val
                  /\ calls[i].err = ErrPortConflict /\ calls[j].err = ErrPortConflict

\* C13 as stated: a Proxy whose listen scheme is not http, https, tcp or tls
\* is rejected when it is constructed: the call fails, no such proxy is in
\* the port map, and for no such proxy is a listener opened or a
\* certificate requested.
C13_UnsupportedSchemeRejected ==
    /\ (last.n > 0 /\ last.listen.Scheme \notin SupportedSchemes) => ~last.ok
    /\ \A k \in DOMAIN Proxies : Proxies[k].Listen.Scheme \in SupportedSchemes
    /\ pListen \notin SupportedSchemes => (~lnOpened /\ ~certAsked)

\* C1: a NewProxy call succeeds, and registers the proxy under its listen
\* port, only when that port is an integer and no key of the port map; a call
\* for a claimed port fails with the port-conflict error, a call with a
\* non-numeric port fails, and both leave the port map as it was; whatever
\* the call, every proxy registered before it stays registered, unchanged.
C1_NewProxyRegistersOnce ==
    [][ LET port == Port(last'.listen)
            key == Atoi(port).val
        IN  /\ \A k \in DOMAIN Proxies :
                  k \in DOMAIN Proxies' /\ Proxies'[k] = Proxies[k]
            /\ last'.ok =>
                  /\ port \in NumericPorts
                  /\ key \notin DOMAIN Proxies
                  /\ DOMAIN Proxies' = DOMAIN Proxies \cup {key}
                  /\ Proxies'[key] = Registered(last'.listen, last'.target)
            /\ ~last'.ok =>
                  /\ Proxies' = Proxies
                  /\ last'.err = ErrPortConflict <=>
                        (port \in NumericPorts /\ key \in DOMAIN Proxies)
                  /\ last'.err # ErrPortConflict <=> port \notin NumericPorts ]_vars

\* a second call for port 80, written differently, has failed with the
\* conflict error and the first proxy is still the one registered
C1_Witness ==
    /\ ~last.ok
    /\ last.err = ErrPortConflict
    /\ 80 \in DOMAIN Proxies
    /\ Proxies[80].Listen # last.listen
    /\ Proxies[80].Target # last.target

----------------------------------------------------------------------------
(* Backend resolution: the dial functions and serviceProxy (SpecResolve) *)

ErrNoProcesses == "no processes available for service"

\* the process ids the rack may list, and the lists ProcessList may return
Pids == {"p1", "p2"}
InstanceLists == {<<>>, <<"p1">>, <<"p1", "p2">>}

InitResolve ==
    /\ instances \in InstanceLists
    /\ dials = <<>>
    /\ relays = <<>>

\* a call of a dial function that ended with error e after q instance queries
Failed(via, q, listed, e) ==
    [via |-> via, queries |-> q, listed |-> listed, err |-> e,
     pipes |-> 0, relays |-> 0, chosen |-> ""]

\* a call that returned one end of a net.Pipe, having started serviceProxy
\* with the other end for process pid
Resolved(via, listed, pid) ==
    [via |-> via, queries |-> 1, listed |-> listed, err |-> "",
     pipes |-> 1, relays |-> 1, chosen |-> pid]

\* `go serviceProxy(r, app, ps.Id, port, a)`, before its first call
\* a, b are the ends of the net.Pipe: a is the relay's, b the caller's;
\* tunnel is the far side of the stream ProcessProxy returns, pending a
\* chunk io.Copy has read from it and not yet written to a
NewRelay(d, pid) ==
    [dial |-> d, pid |-> pid, pc |-> "ProcessProxy", tunnels |-> 0,
     prOpen |-> FALSE, aOpen |-> TRUE, bOpen |-> TRUE, tunnel |-> "none",
     pending |-> FALSE, err |-> ""]

\* the rack's instance list changes
RackChange ==
    /\ instances' \in InstanceLists \ {instances}
    /\ UNCHANGED <<dials, relays, notResolve>>

\* a seeded fault: the pipe is made and the relay started before the list is
\* looked at, with the first process id the rack knows when the list is empty
TransportDialPipeFirst ==
    /\ Len(dials) < MaxDials
    /\ \/ /\ dials' = Append(dials, Failed("serviceTransport", 0, <<>>, "rack.NewFromEnv"))
          /\ UNCHANGED relays
       \/ /\ dials' = Append(dials, Failed("serviceTransport", 1, <<>>, "ProcessList"))
          /\ UNCHANGED relays
       \/ LET pss == instances
          IN  IF Len(pss) < 1
              THEN /\ dials' = Append(dials,
                          [Failed("serviceTransport", 1, pss, ErrNoProcesses)
                              EXCEPT !.pipes = 1, !.relays = 1])
                   /\ relays' = Append(relays, NewRelay(Len(dials) + 1, "p1"))
              ELSE \E k \in 1..Len(pss) :
                      /\ dials' = Append(dials, Resolved("serviceTransport", pss, pss[k]))
                      /\ relays' = Append(relays, NewRelay(Len(dials) + 1, pss[k]))
    /\ UNCHANGED <<instances, notResolve>>

\* a seeded fault: the instance list of the call before is kept and used
\* again instead of asking the rack
TransportDialCached ==
    /\ Len(dials) < MaxDials
    /\ \/ /\ dials' = Append(dials, Failed("serviceTransport", 0, <<>>, "rack.NewFromEnv"))
          /\ UNCHANGED relays
       \/ /\ dials' = Append(dials, Failed("serviceTransport", 1, <<>>, "ProcessList"))
          /\ UNCHANGED relays
       \/ LET pss == IF dials = <<>> THEN instances ELSE dials[Len(dials)].listed
          IN  IF Len(pss) < 1
              THEN /\ dials' = Append(dials, Failed("serviceTransport", 1, pss, ErrNoProcesses))
                   /\ UNCHANGED relays
              ELSE \E k \in 1..Len(pss) :
                      /\ dials' = Append(dials, Resolved("serviceTransport", pss, pss[k]))
                      /\ relays' = Append(relays, NewRelay(Len(dials) + 1, pss[k]))
    /\ UNCHANGED <<instances, notResolve>>

\* serviceTransport's DialContext: rack.NewFromEnv, ProcessList, the check
\* for an empty list, mrand.Intn, net.Pipe, `go serviceProxy`
TransportDial ==
    /\ Len(dials) < MaxDials
    /\ \/ /\ dials' = Append(dials, Failed("serviceTransport", 0, <<>>, "rack.NewFromEnv"))
          /\ UNCHANGED relays
       \/ /\ dials' = Append(dials, Failed("serviceTransport", 1, <<>>, "ProcessList"))
          /\ UNCHANGED relays
       \/ LET pss == instances
          IN  IF Len(pss) < 1
              THEN /\ dials' = Append(dials, Failed("serviceTransport", 1, pss, ErrNoProcesses))
                   /\ UNCHANGED relays
              ELSE \E k \in 1..Len(pss) :
                      /\ dials' = Append(dials, Resolved("serviceTransport", pss, pss[k]))
                      /\ relays' = Append(relays, NewRelay(Len(dials) + 1, pss[k]))
    /\ UNCHANGED <<instances, notResolve>>

\* the NetDial of the WebSocket handler's dialer: the same steps
WsNetDial ==
    /\ Len(dials) < MaxDials
    /\ \/ /\ dials' = Append(dials, Failed("ws", 0, <<>>, "rack.NewFromEnv"))
          /\ UNCHANGED relays
       \/ /\ dials' = Append(dials, Failed("ws", 1, <<>>, "ProcessList"))
          /\ UNCHANGED relays
       \/ LET pss == instances
          IN  IF Len(pss) < 1
              THEN /\ dials' = Append(dials, Failed("ws", 1, pss, ErrNoProcesses))
                   /\ UNCHANGED relays
              ELSE \E k \in 1..Len(pss) :
                      /\ dials' = Append(dials, Resolved("ws", pss, pss[k]))
                      /\ relays' = Append(relays, NewRelay(Len(dials) + 1, pss[k]))
    /\ UNCHANGED <<instances, notResolve>>

\* serviceProxy: rk.ProcessProxy returns the tunnel, or an error with which
\* serviceProxy returns, its end of the pipe left as it is
RelayProcessProxy(r) ==
    /\ relays[r].pc = "ProcessProxy"
    /\ \/ relays' = [relays EXCEPT ![r] = [@ EXCEPT !.pc = "done", !.err = "ProcessProxy"]]
       \/ relays' = [relays EXCEPT ![r] =
                        [@ EXCEPT !.pc = "Copy", !.tunnels = 1, !.prOpen = TRUE,
                                  !.tunnel = "open"]]
    /\ UNCHANGED <<instances, dials, notResolve>>

\* io.Copy(rw, pr): pr.Read returns bytes the far side sent
RelayRead(r) ==
    /\ relays[r].pc = "Copy"
    /\ relays[r].tunnel = "open"
    /\ ~relays[r].pending
    /\ relays' = [relays EXCEPT ![r] = [@ EXCEPT !.pending = TRUE]]
    /\ UNCHANGED <<instances, dials, notResolve>>

\* io.Copy(rw, pr): rw.Write hands the bytes to the caller's end, or fails
\* because that end is closed; then io.Copy returns the error and the
\* deferred pr.Close() runs
RelayWrite(r) ==
    /\ relays[r].pc = "Copy"
    /\ relays[r].pending
    /\ IF relays[r].bOpen
       THEN relays' = [relays EXCEPT ![r] = [@ EXCEPT !.pending = FALSE]]
       ELSE relays' = [relays EXCEPT ![r] =
                          [@ EXCEPT !.pc = "done", !.prOpen = FALSE, !.err = "io.Copy"]]
    /\ UNCHANGED <<instances, dials, notResolve>>

\* the far side ends the tunnel
TunnelClose(r) ==
    /\ relays[r].tunnel = "open"
    /\ relays' = [relays EXCEPT ![r] = [@ EXCEPT !.tunnel = "closed"]]
    /\ UNCHANGED <<instances, dials, notResolve>>

\* serviceProxy: pr.Read meets the end of the tunnel, io.Copy returns, the
\* deferred pr.Close() runs; nothing closes rw
RelayCopyEnd(r) ==
    /\ relays[r].pc = "Copy"
    /\ relays[r].tunnel = "closed"
    /\ ~relays[r].pending
    /\ \E e \in {"", "io.Copy"} :
          relays' = [relays EXCEPT ![r] = [@ EXCEPT !.pc = "done", !.prOpen = FALSE, !.err = e]]
    /\ UNCHANGED <<instances, dials, notResolve>>

\* the holder of the returned connection closes it
CallerClose(r) ==
    /\ relays[r].bOpen
    /\ relays' = [relays EXCEPT ![r] = [@ EXCEPT !.bOpen = FALSE]]
    /\ UNCHANGED <<instances, dials, notResolve>>

NextResolve ==
    \/ RackChange
    \/ TransportDial
    \/ WsNetDial
    \/ \E r \in 1..Len(relays) : RelayProcessProxy(r)

\* the steps of relay r that are serviceProxy's own
RelayStep(r) ==
    /\ r \in 1..Len(relays)
    /\ \/ RelayProcessProxy(r)
       \/ RelayWrite(r)
       \/ RelayCopyEnd(r)

\* SpecRelay follows the relays of at most MaxRelays resolved connections
\* to their end
NextRelay ==
    \/ Len(relays) < MaxRelays /\ TransportDial
    \/ Len(relays) < MaxRelays /\ WsNetDial
    \/ \E r \in 1..Len(relays) : RelayProcessProxy(r)
    \/ \E r \in 1..Len(relays) : RelayRead(r)
    \/ \E r \in 1..Len(relays) : RelayWrite(r)
    \/ \E r \in 1..Len(relays) : TunnelClose(r)
    \/ \E r \in 1..Len(relays) : RelayCopyEnd(r)
    \/ \E r \in 1..Len(relays) : CallerClose(r)

\* a started goroutine runs: each relay's own steps are taken when they stay
\* possible; what the far side and the caller do is up to them
RelayFairness == \A r \in 1..MaxRelays : WF_vars(RelayStep(r))

IdleResolve ==
    /\ instances = <<>>
    /\ dials = <<>>
    /\ relays = <<>>

\* C5: a call of either dial function that found the instance list empty
\* failed with the no-processes error, having made one instance query, no
\* pipe and no relay task; so no relay task, and no tunnel, belongs to it.
C5_EmptyListFailsWithoutTunnel ==
    \A d \in 1..Len(dials) :
        (dials[d].queries > 0 /\ dials[d].err # "ProcessList" /\ dials[d].listed = <<>>) =>
            /\ dials[d].err = ErrNoProcesses
            /\ dials[d].queries = 1
            /\ dials[d].pipes = 0
            /\ dials[d].relays = 0
            /\ \A r \in 1..Len(relays) : relays[r].dial # d

\* both dial functions have met an empty list
C5_Witness ==
    /\ \E d \in 1..Len(dials) : dials[d].via = "ws" /\ dials[d].err = ErrNoProcesses
    /\ \E d \in 1..Len(dials) : dials[d].via = "serviceTransport" /\ dials[d].err = ErrNoProcesses

\* C12: every call of a dial function that returns a connection made one
\* instance query of its own, whose answer is the rack's list at that time,
\* and chose one member of that answer; one relay belongs to the call, it
\* is for the chosen instance and opens at most one tunnel; calls already
\* made and the instance a relay is for never change.
C12_FreshQueryOneInstance ==
    [][ /\ \A d \in 1..Len(dials) : dials'[d] = dials[d]
        /\ \A r \in 1..Len(relays) :
              relays'[r].dial = relays[r].dial /\ relays'[r].pid = relays[r].pid
        /\ \A d \in (Len(dials) + 1)..Len(dials') :
              dials'[d].err = "" =>
                  /\ dials'[d].queries = 1
                  /\ dials'[d].listed = instances
                  /\ \E k \in 1..Len(instances) : dials'[d].chosen = instances[k]
                  /\ \E r \in 1..Len(relays') :
                        /\ relays'[r].dial = d
                        /\ relays'[r].pid = dials'[d].chosen
                        /\ \A q \in 1..Len(relays') : relays'[q].dial = d => q = r
        /\ \A r \in 1..Len(relays') : relays'[r].tunnels <= 1
      ]_vars

\* two connections resolved from different answers of the rack, by the two
\* dial functions, to different instances, both tunnels open
C12_Witness ==
    /\ Len(dials) = 2
    /\ dials[1].err = "" /\ dials[2].err = ""
    /\ dials[1].via # dials[2].via
    /\ dials[1].listed # dials[2].listed
    /\ dials[1].chosen # dials[2].chosen
    /\ \A r \in 1..Len(relays) : relays[r].tunnels = 1

\* C17 as stated: a relay ends once its tunnel has closed or the caller's
\* end of the pipe has been closed.
C17_RelayEndsWithEitherSide ==
    \A r \in 1..MaxRelays :
        (r <= Len(relays) /\ (relays[r].tunnel = "closed" \/ ~relays[r].bOpen))
            ~> (r <= Len(relays) /\ relays[r].pc = "done")

\* C20 as stated: when a relay has ended, after a failed ProcessProxy or at
\* the end of the tunnel, its end of the pipe is closed, so that the caller
\* on the other end is not left waiting.
C20_EndedRelayClosedItsEnd ==
    \A r \in 1..Len(relays) : relays[r].pc = "done" => ~relays[r].aOpen

----------------------------------------------------------------------------
(* The WebSocket handler's outbound headers (SpecWs) *)

Lowers == <<"a", "b", "c", "d", "e", "f", "g", "h", "i", "j", "k", "l", "m", "n", "o", "p", "q", "r", "s", "t", "u", "v", "w", "x", "y", "z">>
Uppers == <<"A", "B", "C", "D", "E", "F", "G", "H", "I", "J", "K", "L", "M", "N", "O", "P", "Q", "R", "S", "T", "U", "V", "W", "X", "Y", "Z">>

UpperOf == [c \in {Lowers[i] : i \in 1..Len(Lowers)} |->
                Uppers[CHOOSE i \in 1..Len(Lowers) : Lowers[i] = c]]
LowerOf == [c \in {Uppers[i] : i \in 1..Len(Uppers)} |->
                Lowers[CHOOSE i \in 1..Len(Uppers) : Uppers[i] = c]]

ToUpper(c) == IF c \in DOMAIN UpperOf THEN UpperOf[c] ELSE c

ToLower(c) == IF c \in DOMAIN LowerOf THEN LowerOf[c] ELSE c

Lower(s) == [i \in 1..Len(s) |-> ToLower(s[i])]
Upper(s) == [i \in 1..Len(s) |-> ToUpper(s[i])]

\* textproto.CanonicalMIMEHeaderKey for a name of letters, digits and
\* hyphens: the first letter and every letter after a hyphen in upper case,
\* the others in lower case.  The server stores every inbound header under
\* this key, and Header.Add applies it to the key it is given.
CanonicalMIMEHeaderKey(s) ==
    [i \in 1..Len(s) |->
        IF i = 1 \/ s[i - 1] = "-" THEN ToUpper(s[i]) ELSE ToLower(s[i])]

\* the six names the handler's loop compares the keys of r.Header with
hUpgrade == <<"U", "p", "g", "r", "a", "d", "e">>
hConnection == <<"C", "o", "n", "n", "e", "c", "t", "i", "o", "n">>
hKey == <<"S", "e", "c", "-", "W", "e", "b", "s", "o", "c", "k", "e", "t", "-", "K", "e", "y">>
hVersion == <<"S", "e", "c", "-", "W", "e", "b", "s", "o", "c", "k", "e", "t", "-", "V", "e", "r", "s", "i", "o", "n">>
hExtensions == <<"S", "e", "c", "-", "W", "e", "b", "s", "o", "c", "k", "e", "t", "-", "E", "x", "t", "e", "n", "s", "i", "o", "n", "s">>
hProtocol == <<"S", "e", "c", "-", "W", "e", "b", "s", "o", "c", "k", "e", "t", "-", "P", "r", "o", "t", "o", "c", "o", "l">>

\* the same names as RFC 6455 writes them
hKeyRFC == <<"S", "e", "c", "-", "W", "e", "b", "S", "o", "c", "k", "e", "t", "-", "K", "e", "y">>
hVersionRFC == <<"S", "e", "c", "-", "W", "e", "b", "S", "o", "c", "k", "e", "t", "-", "V", "e", "r", "s", "i", "o", "n">>
hExtensionsRFC == <<"S", "e", "c", "-", "W", "e", "b", "S", "o", "c", "k", "e", "t", "-", "E", "x", "t", "e", "n", "s", "i", "o", "n", "s">>
hProtocolRFC == <<"S", "e", "c", "-", "W", "e", "b", "S", "o", "c", "k", "e", "t", "-", "P", "r", "o", "t", "o", "c", "o", "l">>

hCookie == <<"C", "o", "o", "k", "i", "e">>
hOrigin == <<"O", "r", "i", "g", "i", "n">>
hXFor == <<"X", "-", "F", "o", "r", "w", "a", "r", "d", "e", "d", "-", "F", "o", "r">>
hXPort == <<"X", "-", "F", "o", "r", "w", "a", "r", "d", "e", "d", "-", "P", "o", "r", "t">>
hXProto == <<"X", "-", "F", "o", "r", "w", "a", "r", "d", "e", "d", "-", "P", "r", "o", "t", "o">>

\* a seeded fault: the names compared with are in the RFC's casing
SkipKeysRFC == {hUpgrade, hConnection, hKeyRFC, hVersionRFC, hExtensionsRFC, hProtocolRFC}

\* the keys the loop skips
SkipKeys == {hUpgrade, hConnection, hKey, hVersion, hExtensions, hProtocol}

\* the header fields a client may send: the negotiation headers in the
\* server's casing, the RFC's, lower and upper case, and some others
NegotiationNames ==
    SkipKeys \cup SkipKeysRFC \cup {Lower(k) : k \in SkipKeys} \cup {Upper(k) : k \in SkipKeys}

WireFields ==
    [name : NegotiationNames, value : {"n"}]
        \cup [name : {hCookie, Lower(hCookie)}, value : {"a", "b"}]
        \cup [name : {hOrigin, Lower(hXFor)}, value : {"a"}]

RECURSIVE SeqsUpTo(_, _)
SeqsUpTo(S, n) ==
    IF n = 0 THEN {<<>>}
    ELSE LET shorter == SeqsUpTo(S, n - 1)
         IN  shorter \cup {Append(q, x) : q \in {t \in shorter : Len(t) = n - 1}, x \in S}

\* r.Header as the server builds it: each field's value appended under the
\* canonical form of its name, in the order the fields were sent
RECURSIVE ReadHeader(_)
ReadHeader(fields) ==
    IF fields = <<>> THEN <<>>
    ELSE LET n == Len(fields)
             h == ReadHeader(SubSeq(fields, 1, n - 1))
             k == CanonicalMIMEHeaderKey(fields[n].name)
         IN  [x \in DOMAIN h \cup {k} |->
                 IF x = k
                 THEN (IF k \in DOMAIN h THEN h[k] ELSE <<>>) \o <<fields[n].value>>
                 ELSE h[x]]

\* the three X-Forwarded-* headers the handler adds first
Forwarded ==
    [x \in {hXFor, hXPort, hXProto} |->
        IF x = hXFor THEN <<"r.RemoteAddr">>
        ELSE IF x = hXPort THEN <<"p.Listen.Port()">>
        ELSE <<"p.Listen.Scheme">>]

\* the handler's loop over r.Header: every value of every key that is not
\* skipped is added (Header.Add) after what the key already holds
OutboundHeaders(header) ==
    LET kept == {k \in DOMAIN header : k \notin SkipKeys}
    IN  [x \in DOMAIN Forwarded \cup {CanonicalMIMEHeaderKey(k) : k \in kept} |->
            (IF x \in DOMAIN Forwarded THEN Forwarded[x] ELSE <<>>)
            \o (IF \E k \in kept : CanonicalMIMEHeaderKey(k) = x
                THEN header[CHOOSE k \in kept : CanonicalMIMEHeaderKey(k) = x]
                ELSE <<>>)]

\* the handler as it is entered: nothing upgraded, dialed, printed or started
HandlerEntry ==
    /\ wsOut = <<>>
    /\ wsFrontend = "none"
    /\ wsBackend = "none"
    /\ wsDials = 0
    /\ wsLog = <<>>
    /\ errc = <<>>
    /\ cps = <<>>

InitWs ==
    /\ wsReq \in SeqsUpTo(WireFields, MaxHeaders)
    /\ wsPc = "Upgrade"
    /\ HandlerEntry

\* `errc := make(chan error, 2)`
ErrcCap == 2

\* `go cp(dst, src)`, in io.Copy
NewCopy(dst, src) == [dst |-> dst, src |-> src, pc |-> "io.Copy", err |-> ""]

\* upgrader.Upgrade: on failure the handler prints and returns; on success
\* it builds the dialer and the outbound headers and calls dialer.Dial
WsUpgrade ==
    /\ wsPc = "Upgrade"
    /\ \/ /\ wsPc' = "returned"
          /\ wsLog' = Append(wsLog, "ws.upgrader")
          /\ UNCHANGED <<wsOut, wsFrontend, wsDials>>
       \/ /\ wsPc' = "Dial"
          /\ wsFrontend' = "open"
          /\ wsOut' = OutboundHeaders(ReadHeader(wsReq))
          /\ wsDials' = wsDials + 1
          /\ UNCHANGED wsLog
    /\ UNCHANGED <<wsReq, wsBackend, errc, cps, notWs>>

\* dialer.Dial returns: on failure the handler prints and returns, on
\* success it makes errc, starts the two copies and waits on errc
WsDial ==
    /\ wsPc = "Dial"
    /\ \/ /\ wsPc' = "returned"
          /\ wsLog' = Append(wsLog, "ws.dial")
          /\ UNCHANGED <<wsBackend, cps>>
       \/ /\ wsPc' = "<-errc"
          /\ wsBackend' = "open"
          /\ cps' = <<NewCopy("frontend", "backend"), NewCopy("backend", "frontend")>>
          /\ UNCHANGED wsLog
    /\ UNCHANGED <<wsReq, wsOut, wsFrontend, wsDials, errc, notWs>>

\* a copy's io.Copy returns, with an error or (its source at its end) without
CopyEnd(t) ==
    /\ cps[t].pc = "io.Copy"
    /\ \E e \in {"", "io.Copy"} :
          cps' = [cps EXCEPT ![t] = [@ EXCEPT !.pc = "errc<-", !.err = e]]
    /\ UNCHANGED <<wsReq, wsPc, wsOut, wsFrontend, wsBackend, wsDials, wsLog, errc, notWs>>

\* a seeded fault: errc is made without a buffer, so a copy can hand over
\* its result only while the handler is receiving
CopySendUnbuffered(t) ==
    /\ cps[t].pc = "errc<-"
    /\ wsPc = "<-errc"
    /\ errc = <<>>
    /\ errc' = Append(errc, cps[t].err)
    /\ cps' = [cps EXCEPT ![t] = [@ EXCEPT !.pc = "done"]]
    /\ UNCHANGED <<wsReq, wsPc, wsOut, wsFrontend, wsBackend, wsDials, wsLog, notWs>>

\* `errc <- err`: the copy puts its result into errc, which has room for
\* ErrcCap results, and ends
CopySend(t) ==
    /\ cps[t].pc = "errc<-"
    /\ Len(errc) < ErrcCap
    /\ errc' = Append(errc, cps[t].err)
    /\ cps' = [cps EXCEPT ![t] = [@ EXCEPT !.pc = "done"]]
    /\ UNCHANGED <<wsReq, wsPc, wsOut, wsFrontend, wsBackend, wsDials, wsLog, notWs>>

\* `<-errc`: the handler takes the first result, prints it when it is an
\* error, and returns; it closes neither connection
WsReceive ==
    /\ wsPc = "<-errc"
    /\ errc # <<>>
    /\ errc' = Tail(errc)
    /\ wsLog' = IF Head(errc) # "" THEN Append(wsLog, "ws.cp") ELSE wsLog
    /\ wsPc' = "returned"
    /\ UNCHANGED <<wsReq, wsOut, wsFrontend, wsBackend, wsDials, cps, notWs>>

NextWs ==
    \/ WsUpgrade
    \/ WsDial

NextPump ==
    \/ WsUpgrade
    \/ WsDial
    \/ \E t \in 1..Len(cps) : CopyEnd(t)
    \/ \E t \in 1..Len(cps) : CopySend(t)
    \/ WsReceive

IdleWs ==
    /\ wsReq = <<>>
    /\ wsPc = "idle"
    /\ HandlerEntry

\* the requests whose handling SpecPump follows to its end
PumpRequests == SeqsUpTo(WireFields, 1)

InitPumpWs ==
    /\ wsReq \in PumpRequests
    /\ wsPc = "Upgrade"
    /\ HandlerEntry

HandshakeBuilt == wsPc \in {"Dial", "<-errc"}

\* the handler started the two copies and has returned
PumpExited == wsPc = "returned" /\ cps # <<>>
\* the handler returned without starting a copy
HandlerFailed == wsPc = "returned" /\ cps = <<>>
Copies == 1..Len(cps)

\* C11 as stated, for the WebSocket pump: once the pump has exited, whether
\* its first copy ended cleanly or with an error, both the inbound and the
\* outbound connection are closed.
C11_PumpExitClosesBoth ==
    PumpExited => (wsFrontend = "closed" /\ wsBackend = "closed")

\* C14 as stated: when the upgrade or the outbound dial fails the handler
\* prints a diagnostic and aborts the connection: it starts no copy, dials
\* at most once, and does not leave an upgraded inbound connection open.
C14_FailureAbortsConnection ==
    HandlerFailed =>
        /\ wsLog \in {<<"ws.upgrader">>, <<"ws.dial">>}
        /\ wsDials <= 1
        /\ wsBackend = "none"
        /\ wsFrontend # "open"

\* C18: the pump has exactly two copies; a copy that has its result can
\* always put it into errc, whether or not the handler is still there
\* to take it; the handler can return as soon as one copy has reported,
\* and has returned only after one did, not necessarily both.
C18_ReportsNeverBlock ==
    /\ Len(cps) \in {0, 2}
    /\ \A t \in Copies : cps[t].pc = "errc<-" => ENABLED CopySend(t)
    /\ (wsPc = "<-errc" /\ \E t \in Copies : cps[t].pc = "done") => ENABLED WsReceive
    /\ PumpExited => \E t \in Copies : cps[t].pc = "done"
    /\ Len(errc) <= ErrcCap

\* the handler is gone, the second copy reported after it left: its result
\* stays in errc
C18_Witness ==
    /\ PumpExited
    /\ \A t \in Copies : cps[t].pc = "done"
    /\ Len(errc) = 1

\* the six negotiation names, in lower case
NegotiationLower == {Lower(n) : n \in SkipKeysRFC}

\* C6: the headers handed to the outbound handshake hold none of the six
\* negotiation headers, in whatever casing the inbound request wrote them;
\* every value of every other inbound header is among them, under the same
\* name; and the three X-Forwarded-* headers lead their keys.
C6_NegotiationHeadersDropped ==
    HandshakeBuilt =>
        /\ \A k \in DOMAIN wsOut : Lower(k) \notin NegotiationLower
        /\ \A i \in 1..Len(wsReq) :
              Lower(wsReq[i].name) \notin NegotiationLower =>
                  \E k \in DOMAIN wsOut :
                      /\ Lower(k) = Lower(wsReq[i].name)
                      /\ \E j \in 1..Len(wsOut[k]) : wsOut[k][j] = wsReq[i].value
        /\ \A x \in DOMAIN Forwarded :
              x \in DOMAIN wsOut /\ wsOut[x][1] = Forwarded[x][1]

\* a request that wrote Sec-WebSocket-Key as the RFC does, and a cookie, has
\* had its handshake headers built
C6_Witness ==
    /\ HandshakeBuilt
    /\ \E i \in 1..Len(wsReq) : wsReq[i].name = hKeyRFC
    /\ \E i \in 1..Len(wsReq) : wsReq[i].name = Lower(hCookie)
    /\ hCookie \in DOMAIN wsOut

----------------------------------------------------------------------------
(* Proxy.MarshalJSON (SpecJSON) *)

\* the characters of a scheme
SchemeChars(scheme) ==
    CASE scheme = "tcp" -> <<"t", "c", "p">>
      [] scheme = "tls" -> <<"t", "l", "s">>
      [] scheme = "http" -> <<"h", "t", "t", "p">>
      [] scheme = "https" -> <<"h", "t", "t", "p", "s">>
      [] scheme = "udp" -> <<"u", "d", "p">>
      [] OTHER -> <<>>

\* url.URL.String for a URL of scheme, host and path whose characters need
\* no percent-encoding
String(u) ==
    LET scheme == SchemeChars(u.Scheme)
    IN  (IF scheme # <<>> THEN scheme \o Colon ELSE <<>>)
        \o (IF (scheme # <<>> \/ u.Host # <<>>) /\ (u.Host # <<>> \/ u.Path # <<>>)
            THEN Slash \o Slash \o u.Host ELSE <<>>)
        \o (IF u.Path # <<>> /\ u.Path[1] # "/" /\ u.Host # <<>> THEN Slash ELSE <<>>)
        \o u.Path

Quote == <<"\"">>
Backslash == <<"\\">>

\* encoding/json on one character of a string: the quote and the backslash
\* get a backslash, the characters <, > and & are written as \u00XX
EncodeChar(c) ==
    CASE c = "\"" -> Backslash \o Quote
      [] c = "\\" -> Backslash \o Backslash
      [] c = "<" -> Backslash \o <<"u", "0", "0", "3", "c">>
      [] c = ">" -> Backslash \o <<"u", "0", "0", "3", "e">>
      [] c = "&" -> Backslash \o <<"u", "0", "0", "2", "6">>
      [] OTHER -> <<c>>

RECURSIVE EncodeChars(_)
EncodeChars(str) ==
    IF str = <<>> THEN <<>> ELSE EncodeChar(Head(str)) \o EncodeChars(Tail(str))

\* encoding/json on a string
EncodeString(str) == Quote \o EncodeChars(str) \o Quote

\* the order of map keys made of lower-case letters: byte-wise
RECURSIVE KeyLess(_, _)
KeyLess(a, b) ==
    IF a = <<>> THEN b # <<>>
    ELSE IF b = <<>> THEN FALSE
    ELSE IF Head(a) = Head(b) THEN KeyLess(Tail(a), Tail(b))
    ELSE IndexByte(Lowers, Head(a)) < IndexByte(Lowers, Head(b))

\* a seeded fault: the keys of the map are written last first
RECURSIVE SortedKeysDescending(_)
SortedKeysDescending(keys) ==
    IF keys = {} THEN <<>>
    ELSE LET k == CHOOSE x \in keys : \A y \in keys \ {x} : KeyLess(y, x)
         IN  <<k>> \o SortedKeysDescending(keys \ {k})

\* encoding/json writes the keys of a map in sorted order
RECURSIVE SortedKeys(_)
SortedKeys(keys) ==
    IF keys = {} THEN <<>>
    ELSE LET k == CHOOSE x \in keys : \A y \in keys \ {x} : KeyLess(x, y)
         IN  <<k>> \o SortedKeys(keys \ {k})

RECURSIVE EncodeMembers(_, _)
EncodeMembers(m, keys) ==
    IF keys = <<>> THEN <<>>
    ELSE EncodeString(Head(keys)) \o Colon \o EncodeString(m[Head(keys)])
         \o (IF Len(keys) > 1 THEN <<",">> ELSE <<>>)
         \o EncodeMembers(m, Tail(keys))

\* json.Marshal of a map[string]string
Marshal(m) == <<"{">> \o EncodeMembers(m, SortedKeys(DOMAIN m)) \o <<"}">>

kListen == <<"l", "i", "s", "t", "e", "n">>
kTarget == <<"t", "a", "r", "g", "e", "t">>

\* the map literal MarshalJSON builds
ProxyMap(p) ==
    [k \in {kListen, kTarget} |-> IF k = kListen THEN String(p.Listen) ELSE String(p.Target)]

sAny5000 == <<"0", ".", "0", ".", "0", ".", "0", ":", "5", "0", "0", "0">>
sMyappWeb == <<"/", "m", "y", "a", "p", "p", "/", "s", "e", "r", "v", "i", "c", "e", "/", "w", "e", "b", ":", "3", "0", "0", "0">>
sAmpPath == <<"/", "a", "&", "b">>

\* the Proxies marshaled
JSONListens ==
    [Scheme : {"tcp", "http", "https", "tls"},
     Host : {sAny5000, sHost \o Colon \o s80, sHost},
     Path : {<<>>}]

JSONTargets ==
    { RackTarget(sMyappWeb),
      RackTarget(Slash \o sApp \o Slash \o sResource \o Slash \o sDb \o Colon \o s80),
      RackTarget(<<>>),
      DirectTarget,
      [Scheme |-> "http", Host |-> sHost, Path |-> sAmpPath],
      [Scheme |-> "https", Host |-> sHost \o Colon \o s81, Path |-> Slash] }

InitJSON ==
    /\ jsonP \in [Listen : JSONListens, Target : JSONTargets]
    /\ jsonOut = <<>>

\* Proxy.MarshalJSON, called on a copy of the Proxy (a value receiver)
MarshalJSON ==
    /\ jsonOut' = Marshal(ProxyMap(jsonP))
    /\ UNCHANGED <<jsonP, notJSON>>

NextJSON == MarshalJSON

\* reading a JSON string back, from the character after its opening quote:
\* the text it stands for and the index after its closing quote
RECURSIVE DecodeFrom(_, _, _)
DecodeFrom(out, i, acc) ==
    IF i > Len(out) THEN [ok |-> FALSE, text |-> acc, next |-> i]
    ELSE IF out[i] = "\"" THEN [ok |-> TRUE, text |-> acc, next |-> i + 1]
    ELSE IF out[i] # "\\" THEN DecodeFrom(out, i + 1, Append(acc, out[i]))
    ELSE IF i + 1 > Len(out) THEN [ok |-> FALSE, text |-> acc, next |-> i]
    ELSE IF out[i + 1] # "u" THEN DecodeFrom(out, i + 2, Append(acc, out[i + 1]))
    ELSE IF i + 5 > Len(out) THEN [ok |-> FALSE, text |-> acc, next |-> i]
    ELSE LET hex == SubSeq(out, i + 2, i + 5)
             c == CASE hex = <<"0", "0", "3", "c">> -> "<"
                    [] hex = <<"0", "0", "3", "e">> -> ">"
                    [] hex = <<"0", "0", "2", "6">> -> "&"
                    [] OTHER -> "?"
         IN  DecodeFrom(out, i + 6, Append(acc, c))

\* an output read as an object of two members: the keys and values in the
\* order written, ok when it is exactly `{"k":"v","k":"v"}`
Members(out) ==
    IF Len(out) < 2 \/ out[1] # "{" \/ out[2] # "\"" THEN [ok |-> FALSE]
    ELSE LET k1 == DecodeFrom(out, 3, <<>>)
         IN  IF ~k1.ok \/ k1.next + 1 > Len(out) \/ out[k1.next] # ":" \/ out[k1.next + 1] # "\""
             THEN [ok |-> FALSE]
             ELSE LET v1 == DecodeFrom(out, k1.next + 2, <<>>)
                  IN  IF ~v1.ok \/ v1.next + 1 > Len(out) \/ out[v1.next] # ","
                         \/ out[v1.next + 1] # "\""
                      THEN [ok |-> FALSE]
                      ELSE LET k2 == DecodeFrom(out, v1.next + 2, <<>>)
                           IN  IF ~k2.ok \/ k2.next + 1 > Len(out) \/ out[k2.next] # ":"
                                  \/ out[k2.next + 1] # "\""
                               THEN [ok |-> FALSE]
                               ELSE LET v2 == DecodeFrom(out, k2.next + 2, <<>>)
                                    IN  IF ~v2.ok \/ v2.next # Len(out) \/ out[v2.next] # "}"
                                        THEN [ok |-> FALSE]
                                        ELSE [ok |-> TRUE,
                                              keys |-> <<k1.text, k2.text>>,
                                              values |-> <<v1.text, v2.text>>]

ExampleProxy ==
    [Listen |-> [Scheme |-> "tcp", Host |-> sAny5000, Path |-> <<>>],
     Target |-> RackTarget(sMyappWeb)]

ExampleJSON ==
    <<"{", "\"", "l", "i", "s", "t", "e", "n", "\"", ":", "\"", "t", "c", "p", ":",
      "/", "/", "0", ".", "0", ".", "0", ".", "0", ":", "5", "0", "0", "0", "\"",
      ",", "\"", "t", "a", "r", "g", "e", "t", "\"", ":", "\"", "t", "c", "p", ":",
      "/", "/", "r", "a", "c", "k", "/", "m", "y", "a", "p", "p", "/", "s", "e",
      "r", "v", "i", "c", "e", "/", "w", "e", "b", ":", "3", "0", "0", "0", "\"",
      "}">>

Marshaled == jsonOut # <<>>

\* C15: the output of MarshalJSON is an object of exactly two members, listen
\* first and target second, whose values read back as the String() of the
\* Proxy's Listen and of its Target; for listen tcp://0.0.0.0:5000 and
\* target tcp://rack/myapp/service/web:3000 it is exactly the text of the
\* example; and a call leaves the Proxy as it was.
C15_MarshalJSONShape ==
    /\ [][jsonP' = jsonP]_vars
    /\ [](Marshaled =>
            /\ Members(jsonOut).ok
            /\ Members(jsonOut).keys = <<kListen, kTarget>>
            /\ Members(jsonOut).values = <<String(jsonP.Listen), String(jsonP.Target)>>
            /\ jsonP = ExampleProxy => jsonOut = ExampleJSON)

\* the example has been marshaled
C15_Witness ==
    /\ Marshaled
    /\ jsonP = ExampleProxy

----------------------------------------------------------------------------
(* Specifications *)

IdleRace == calls = <<>>

IdleJSON ==
    /\ jsonP = [Listen |-> NoCall.listen, Target |-> DirectTarget]
    /\ jsonOut = <<>>

Init == InitServe /\ IdleEndpoint /\ IdleResolve /\ IdleWs /\ IdleRace /\ IdleJSON

Spec == Init /\ [][NextServe]_vars

InitE == InitEndpoint /\ IdleServe /\ IdleResolve /\ IdleWs /\ IdleRace /\ IdleJSON

SpecEndpoint == InitE /\ [][NextEndpoint]_vars

InitR == InitResolve /\ IdleServe /\ IdleEndpoint /\ IdleWs /\ IdleRace /\ IdleJSON

SpecResolve == InitR /\ [][NextResolve]_vars

InitW == InitWs /\ IdleServe /\ IdleEndpoint /\ IdleResolve /\ IdleRace /\ IdleJSON

SpecWs == InitW /\ [][NextWs]_vars

SpecRelay == InitR /\ [][NextRelay]_vars /\ RelayFairness

SpecProxy == InitE /\ [][NextProxy]_vars

InitC == InitRace /\ last = NoCall /\ IdleServe /\ IdleResolve /\ IdleWs /\ IdleJSON

SpecRace == InitC /\ [][NextRace]_vars

InitJ == InitJSON /\ IdleServe /\ IdleEndpoint /\ IdleResolve /\ IdleWs /\ IdleRace

SpecJSON == InitJ /\ [][NextJSON]_vars

InitP == InitPumpWs /\ IdleServe /\ IdleEndpoint /\ IdleResolve /\ IdleRace /\ IdleJSON

SpecPump == InitP /\ [][NextPump]_vars

=============================================================================
